---- MODULE Spec2Model ----
(***************************************************************************)
(* tinytar (src/tools/tinytar.c, version 20250512): the USTAR archive      *)
(* engine -- octal codec, header record, block stream, create / append /   *)
(* list / extract -- modelled at byte level.  A file is a sequence of      *)
(* bytes (naturals 0..255); file offsets are 0-based as in C, sequence     *)
(* indices are 1-based.                                                    *)
(***************************************************************************)
EXTENDS Integers, Sequences, FiniteSets, TLC

\* ------------------------------------------------------------------ bounds
\* longest list of source files on one command line
MaxSrc == 2
\* longest list of source files on an append command line
MaxExtra == 1

\* --------------------------------------------------------------- constants
RECORD_SIZE == 512
NAME_SIZE == 101
\* 1980-01-01 00:00:00 UTC in seconds since 1970
T_19800101 == 315532800

\* ----------------------------------------------------------- byte helpers
Min(a, b) == IF a < b THEN a ELSE b
Max(a, b) == IF a > b THEN a ELSE b

\* memset( p, c, n )
memset(c, n) == SubSeq([k \in 1..n |-> c], 1, n)

\* the bytes file[off .. off+n-1] (0-based offset), clipped to the file
Bytes(file, off, n) ==
    IF off >= Len(file) \/ n <= 0 THEN << >>
    ELSE SubSeq(file, off + 1, Min(Len(file), off + n))

\* strncpy( dst, src, n ) into a field of n bytes: at most n bytes of src,
\* the rest of the field filled with NUL
\* a copy that keeps the last byte of the field for a NUL
strncpy_term(src, n) ==
    IF Len(src) >= n THEN SubSeq(src, 1, n - 1) \o << 0 >>
    ELSE src \o memset(0, n - Len(src))

strncpy(src, n) ==
    IF Len(src) >= n THEN SubSeq(src, 1, n)
    ELSE src \o memset(0, n - Len(src))

\* sum of the bytes s[lo..hi]
RECURSIVE SumBytes(_, _, _)
SumBytes(s, lo, hi) ==
    IF lo > hi THEN 0
    ELSE IF lo = hi THEN s[lo]
    ELSE LET mid == (lo + hi) \div 2
         IN  SumBytes(s, lo, mid) + SumBytes(s, mid + 1, hi)

\* ASCII: '0' = 48, '7' = 55, ' ' = 32, printable = 32..126
IsOctalDigit(c) == c >= 48 /\ c <= 55
isprint(c) == c >= 32 /\ c <= 126

\* ------------------------------------------------------------ octal codec
\* the octal digits of val >= 0, most significant first, at least one digit
RECURSIVE OctalDigits(_)
OctalDigits(val) ==
    IF val < 8 THEN << 48 + val >>
    ELSE Append(OctalDigits(val \div 8), 48 + (val % 8))

\* printf "%0*lo": the octal digits, left-padded with '0' to width w
PrintfOctal(w, val) ==
    LET d == OctalDigits(val)
    IN  IF Len(d) >= w THEN d ELSE memset(48, w - Len(d)) \o d

\* an encoder that asks printf for size digits instead of size - 1
long_to_octal_wide(size, val) ==
    LET s == PrintfOctal(size, val)
        t == SubSeq(s, 1, Min(Len(s), size - 1))
    IN  t \o memset(0, size - Len(t))

\* long_to_octal( out, size, val ): snprintf keeps at most size-1 characters
\* and terminates them with NUL; out[ size - 1 ] = '\0'
long_to_octal(size, val) ==
    LET s == PrintfOctal(size - 1, val)
        t == SubSeq(s, 1, Min(Len(s), size - 1))
    IN  t \o memset(0, size - Len(t))

\* a decoder that stops at the first byte that is not an octal digit
RECURSIVE octal_to_long_stop(_, _)
octal_to_long_stop(str, len) ==
    IF len = 0 THEN 0
    ELSE IF \E k \in 1..len : ~IsOctalDigit(str[k])
    THEN octal_to_long_stop(str, len - 1)
    ELSE octal_to_long_stop(str, len - 1) * 8 + (str[len] - 48)

\* octal_to_long( str, len ): every byte of the field is visited; a byte in
\* '0'..'7' is shifted in, any other byte is passed over
RECURSIVE octal_to_long(_, _)
octal_to_long(str, len) ==
    IF len = 0 THEN 0
    ELSE LET v == octal_to_long(str, len - 1)
         IN  IF IsOctalDigit(str[len]) THEN v * 8 + (str[len] - 48) ELSE v

\* ---------------------------------------------------------- header record
\* "ustar"
USTAR == << 117, 115, 116, 97, 114 >>
\* "ustar  " (strncpy into magic[ 8 ] adds the NUL)
MAGIC == << 117, 115, 116, 97, 114, 32, 32 >>
\* "user", "group"
UNAME == << 117, 115, 101, 114 >>
GNAME == << 103, 114, 111, 117, 112 >>

\* the header with the bytes `data` stored at 0-based offset `at`
Overwrite(h, at, data) ==
    SubSeq(h, 1, at) \o data \o SubSeq(h, at + Len(data) + 1, Len(h))

\* struct tar_header after the field assignments of write_tar_header, the
\* checksum field still blank (eight spaces)
HeaderBlank(filename, filesize, mtime) ==
    strncpy(filename, 100)            \* name      [0:100)
    \o long_to_octal(8, 420)          \* mode      0644
    \o long_to_octal(8, 1000)         \* uid
    \o long_to_octal(8, 1000)         \* gid
    \o long_to_octal(12, filesize)    \* size      [124:136)
    \o long_to_octal(12, mtime)       \* mtime     [136:148)
    \o memset(32, 8)                  \* chksum    [148:156)
    \o << 48 >>                       \* typeflag  '0'
    \o memset(0, 100)                 \* linkname
    \o strncpy(MAGIC, 8)              \* magic     [257:265)
    \o strncpy(UNAME, 32)             \* uname
    \o strncpy(GNAME, 32)             \* gname
    \o memset(0, 8 + 8 + 155 + 12)    \* devmajor, devminor, prefix, pad

\* the checksum loop: unsigned sum of the 512 header bytes
compute_checksum(header) == SumBytes(header, 1, Len(header))

\* sprintf( header.chksum, "%06o", checksum ); chksum[ 6 ] = '\0';
\* chksum[ 7 ] = ' ': the bytes stored from offset 148 on
ChksumBytes(checksum) ==
    LET d == PrintfOctal(6, checksum) \o << 0 >>
    IN  d

\* write_tar_header without the memset of the checksum field to spaces: the
\* sum is taken over a field of NULs
write_tar_header_noblank(filename, filesize, mtime) ==
    LET h0 == Overwrite(HeaderBlank(filename, filesize, mtime), 148,
                        memset(0, 8))
        h1 == Overwrite(h0, 148, ChksumBytes(compute_checksum(h0)))
        h2 == Overwrite(h1, 148 + 6, << 0 >>)
        h3 == Overwrite(h2, 148 + 7, << 32 >>)
    IN  h3

\* write_tar_header: the 512 bytes handed to fwrite
write_tar_header(filename, filesize, mtime) ==
    LET h0 == HeaderBlank(filename, filesize, mtime)
        h1 == Overwrite(h0, 148, ChksumBytes(compute_checksum(h0)))
        h2 == Overwrite(h1, 148 + 6, << 0 >>)
        h3 == Overwrite(h2, 148 + 7, << 32 >>)
    IN  h3

ZeroBlock == memset(0, RECORD_SIZE)

\* is_block_empty: all RECORD_SIZE bytes are zero
is_block_empty(block) == SubSeq(block, 1, RECORD_SIZE) = ZeroBlock

\* a magic test that compares four bytes only
is_valid_tar_header_4(header) == SubSeq(header, 258, 261) = SubSeq(USTAR, 1, 4)

\* is_valid_tar_header: strncmp( header + 257, "ustar", 5 ) == 0
is_valid_tar_header(header) == SubSeq(header, 258, 262) = USTAR

\* a skip rounded down to whole blocks
Padded_floor(filesize) == (filesize \div RECORD_SIZE) * RECORD_SIZE

\* ( ( filesize + RECORD_SIZE - 1 ) / RECORD_SIZE ) * RECORD_SIZE
Padded(filesize) == ((filesize + RECORD_SIZE - 1) \div RECORD_SIZE) * RECORD_SIZE

\* ------------------------------------------------------------ block stream
\* fread( record, 1, RECORD_SIZE, fp ) at offset p: the number of bytes read,
\* the buffer afterwards (a short read leaves the tail of the buffer as it
\* was) and the new offset
fread(file, p, rec) ==
    LET n == Min(RECORD_SIZE, Max(0, Len(file) - p))
    IN  [n      |-> n,
         record |-> Bytes(file, p, n) \o SubSeq(rec, n + 1, RECORD_SIZE),
         pos    |-> p + n]

\* fwrite( data, 1, Len(data), fp ) at offset p of a stream that was not
\* truncated: bytes under the data are replaced, a gap between the old end
\* of file and p reads as zeros, bytes behind the data stay
fwrite(file, p, data) ==
    SubSeq(file, 1, Min(p, Len(file)))
    \o memset(0, p - Len(file))
    \o data
    \o SubSeq(file, p + Len(data) + 1, Len(file))

\* what the volume keeps of a file grown to `file`: with `space` bytes of
\* room (space < 0: no limit) the bytes behind offset `space` are not stored,
\* the fwrite that carried them transfers fewer bytes than requested
Stored(file, space) ==
    IF space < 0 \/ Len(file) <= space THEN file ELSE SubSeq(file, 1, space)

\* the size field of a header block: octal_to_long( record + 124, 12 )
SizeOf(rec) == octal_to_long(SubSeq(rec, 125, 136), 12)

\* the name decoded by list and extract: up to NAME_SIZE - 1 bytes, stop at
\* the first NUL, '?' for a byte that is not printable
DecodeName(rec, k) ==
    LET nuls == { j \in k..(NAME_SIZE - 1) : rec[j] = 0 }
        last == IF nuls = { } THEN NAME_SIZE - 1
                ELSE (CHOOSE j \in nuls : \A m \in nuls : j <= m) - 1
        n    == last - k + 1
    IN  SubSeq([j \in 1..n |->
                   IF isprint(rec[k + j - 1]) THEN rec[k + j - 1] ELSE 63],
               1, n)

\* ------------------------------------------------------------ source files
\* The files a command line can name: kind "reg" is a regular file, "dir"
\* opens but is not a regular file, "none" cannot be opened.
FileData4 ==
    SubSeq([k \in 1..600 |->
               IF k > 257 /\ k <= 262 THEN USTAR[k - 257] ELSE (k % 251) + 1],
           1, 600)

\* "a", "b", "m", "z", "d" and a name of 100 bytes; st_mtime and st_atime
\* are what stat reports: 0 (no timestamp), 300000000 (1979-07-05),
\* 315532800 (1980-01-01) and times of 2023
Files ==
    << [name |-> << 97 >>,  kind |-> "reg",  data |-> << 120, 121, 122 >>,
        mtime |-> 1700000000, atime |-> 300000000],
       [name |-> << 98 >>,  kind |-> "reg",  data |-> << >>,
        mtime |-> 0, atime |-> 0],
       [name |-> << 109 >>, kind |-> "none", data |-> << >>,
        mtime |-> 0, atime |-> 0],
       [name |-> << 122 >>, kind |-> "reg",  data |-> ZeroBlock,
        mtime |-> 1700000001, atime |-> 1700000005],
       [name |-> << 100 >>, kind |-> "dir",  data |-> << >>,
        mtime |-> 1700000000, atime |-> 1700000000],
       [name |-> memset(110, 100), kind |-> "reg", data |-> FileData4,
        mtime |-> 315532800, atime |-> 315532800] >>

\* what time( NULL ) can return: -1 (no clock), 0, the floor itself, a time of
\* 2023
ClockReadings == { -1, 0, T_19800101, 1700000002 }

\* main: now = time( NULL ); if ( now <= T_19800101 ) now = T_19800101
main_now(t) == IF t <= T_19800101 THEN T_19800101 ELSE t

\* the values the global now can hold while write_file runs, a clock tick
\* later included
Nows == { main_now(t) : t \in ClockReadings } \cup
        { main_now(t + 1) : t \in ClockReadings }

\* command lines: up to n sources, each file at most once
ArgLists(n) ==
    { a \in UNION { [1..k -> 1..Len(Files)] : k \in 1..n } :
        \A x, y \in DOMAIN a : x < y => a[x] < a[y] }

CreateArgs == ArgLists(MaxSrc)
AppendArgs == ArgLists(MaxExtra)

\* ------------------------------------------------------------------ writer
\* write_file_content without the memset of a short block: only the bytes
\* read are written
RECURSIVE write_file_content_nopad(_, _, _)
write_file_content_nopad(data, off, remaining) ==
    IF remaining <= 0 THEN << >>
    ELSE LET r == fread(data, off, ZeroBlock)
         IN  SubSeq(r.record, 1, r.n)
             \o write_file_content_nopad(data, r.pos, remaining - r.n)

\* write_file_content: one RECORD_SIZE block per pass while remaining > 0;
\* a short read is padded with zeros; remaining -= n
RECURSIVE write_file_content(_, _, _)
write_file_content(data, off, remaining) ==
    IF remaining <= 0 THEN << >>
    ELSE LET r == fread(data, off, ZeroBlock)
             block == SubSeq(r.record, 1, r.n)
                      \o memset(0, RECORD_SIZE - r.n)
         IN  block \o write_file_content(data, r.pos, remaining - r.n)

\* get_file_size: fseek to the end, ftell
get_file_size(f) == Len(f.data)

\* a floor test that lets a time exactly at the floor pass
FileTime_lt(f, build_cpm, t_now) ==
    IF build_cpm
    THEN IF f.atime < T_19800101 THEN t_now ELSE f.atime
    ELSE f.mtime

\* the time write_file stores: the CP/M build takes st_atime and replaces a
\* value at or before T_19800101 by the global now; any other build takes
\* st_mtime as it is
FileTime(f, build_cpm, t_now) ==
    IF build_cpm
    THEN IF f.atime <= T_19800101 THEN t_now ELSE f.atime
    ELSE f.mtime

\* write_file: the bytes written to the archive for one source; nothing for a
\* source that cannot be opened or is not a regular file
write_file(f, build_cpm, t_now) ==
    IF f.kind # "reg" THEN << >>
    ELSE write_tar_header(f.name, get_file_size(f),
                          FileTime(f, build_cpm, t_now))
         \o write_file_content(f.data, 0, get_file_size(f))

\* write_file for every build, every value of now and every file a command
\* line can name
Written ==
    [c \in BOOLEAN |-> [t \in Nows |->
        [k \in DOMAIN Files |-> write_file(Files[k], c, t)]]]

\* a terminator of one zero block only
Terminator_one == ZeroBlock

\* the two zero blocks written at the end of create and append
Terminator == ZeroBlock \o ZeroBlock

\* mode_create_append( 0 ) as a whole: the archive written for the command
\* line a, in a file that fopen "wb" has emptied
RECURSIVE WriteAll(_, _, _, _)
WriteAll(a, k, build_cpm, t_now) ==
    IF k > Len(a) THEN << >>
    ELSE Written[build_cpm][t_now][a[k]]
         \o WriteAll(a, k + 1, build_cpm, t_now)

mode_create(a, build_cpm, t_now) ==
    WriteAll(a, 1, build_cpm, t_now) \o Terminator

\* ------------------------------------------------------------- append scan
\* a scan that does not skip the content of an entry
ScanCheck_noskip(rec, p) ==
    IF ~is_valid_tar_header(rec)
    THEN [ret |-> -1, pos |-> p, record |-> rec]
    ELSE [ret |-> -2, pos |-> p, record |-> rec]

\* One pass of the while loop of find_append_position, from offset p.
\* ret = -2: the loop goes on at pos; ret = -1: invalid archive;
\* ret >= 0: the insertion point returned.
ScanCheck(rec, p) ==
    IF ~is_valid_tar_header(rec)
    THEN [ret |-> -1, pos |-> p, record |-> rec]
    ELSE [ret |-> -2, pos |-> p + Padded(SizeOf(rec)), record |-> rec]

\* a scan that returns the offset behind the first zero block
ScanPass_behind(file, p, rec) ==
    LET r1 == fread(file, p, rec)
    IN  IF r1.n # RECORD_SIZE
        THEN [ret |-> r1.pos, pos |-> r1.pos, record |-> r1.record]
        ELSE IF is_block_empty(r1.record)
        THEN LET r2 == fread(file, r1.pos, r1.record)
             IN  IF r2.n = RECORD_SIZE /\ is_block_empty(r2.record)
                 THEN [ret |-> r1.pos, pos |-> r2.pos, record |-> r2.record]
                 ELSE ScanCheck(r2.record, r2.pos - RECORD_SIZE)
        ELSE ScanCheck(r1.record, r1.pos)

\* a scan that takes a short read for a damaged archive
ScanPass_eof(file, p, rec) ==
    LET r1 == fread(file, p, rec)
    IN  IF r1.n # RECORD_SIZE
        THEN [ret |-> -1, pos |-> r1.pos, record |-> r1.record]
        ELSE IF is_block_empty(r1.record)
        THEN LET zpos == r1.pos - RECORD_SIZE
                 r2 == fread(file, r1.pos, r1.record)
             IN  IF r2.n = RECORD_SIZE /\ is_block_empty(r2.record)
                 THEN [ret |-> zpos, pos |-> r2.pos, record |-> r2.record]
                 ELSE ScanCheck(r2.record, r2.pos - RECORD_SIZE)
        ELSE ScanCheck(r1.record, r1.pos)

ScanPass(file, p, rec) ==
    LET r1 == fread(file, p, rec)
    IN  IF r1.n # RECORD_SIZE
        THEN [ret |-> r1.pos, pos |-> r1.pos, record |-> r1.record]
        ELSE IF is_block_empty(r1.record)
        THEN LET zpos == r1.pos - RECORD_SIZE
                 r2 == fread(file, r1.pos, r1.record)
             IN  IF r2.n = RECORD_SIZE /\ is_block_empty(r2.record)
                 THEN [ret |-> zpos, pos |-> r2.pos, record |-> r2.record]
                 ELSE ScanCheck(r2.record, r2.pos - RECORD_SIZE)
        ELSE ScanCheck(r1.record, r1.pos)

\* find_append_position as a whole: the passes iterated from offset 0
RECURSIVE ScanFrom(_, _, _)
ScanFrom(file, p, rec) ==
    LET s == ScanPass(file, p, rec)
    IN  IF s.ret = -2 THEN ScanFrom(file, s.pos, s.record) ELSE s.ret

find_append_position(file) == ScanFrom(file, 0, ZeroBlock)

\* ------------------------------------------------------------------ reader
\* a list that passes over a block without magic and looks for a header in
\* the next block
RECURSIVE ListFrom_resync(_, _, _)
ListFrom_resync(file, p, rec) ==
    LET r == fread(file, p, rec)
    IN  IF r.n # RECORD_SIZE \/ is_block_empty(r.record)
        THEN [lines |-> << >>, err |-> FALSE]
        ELSE IF ~is_valid_tar_header(r.record)
        THEN LET rest == ListFrom_resync(file, r.pos, r.record)
             IN  [lines |-> rest.lines, err |-> TRUE]
        ELSE LET filesize == SizeOf(r.record)
                 rest == ListFrom_resync(file, r.pos + Padded(filesize),
                                         r.record)
             IN  [lines |-> << [name |-> DecodeName(r.record, 1),
                                 size |-> filesize] >> \o rest.lines,
                  err   |-> rest.err]

\* a list without the test for an empty block
RECURSIVE ListFrom_noempty(_, _, _)
ListFrom_noempty(file, p, rec) ==
    LET r == fread(file, p, rec)
    IN  IF r.n # RECORD_SIZE
        THEN [lines |-> << >>, err |-> FALSE]
        ELSE IF ~is_valid_tar_header(r.record)
        THEN [lines |-> << >>, err |-> TRUE]
        ELSE LET filesize == SizeOf(r.record)
                 rest == ListFrom_noempty(file, r.pos + Padded(filesize),
                                          r.record)
             IN  [lines |-> << [name |-> DecodeName(r.record, 1),
                                 size |-> filesize] >> \o rest.lines,
                  err   |-> rest.err]

\* mode_list: the (name, size) lines printed, and whether the format error
\* was reported
RECURSIVE ListFrom(_, _, _)
ListFrom(file, p, rec) ==
    LET r == fread(file, p, rec)
    IN  IF r.n # RECORD_SIZE \/ is_block_empty(r.record)
        THEN [lines |-> << >>, err |-> FALSE]
        ELSE IF ~is_valid_tar_header(r.record)
        THEN [lines |-> << >>, err |-> TRUE]
        ELSE LET filesize == SizeOf(r.record)
                 rest == ListFrom(file, r.pos + Padded(filesize), r.record)
             IN  [lines |-> << [name |-> DecodeName(r.record, 1),
                                 size |-> filesize] >> \o rest.lines,
                  err   |-> rest.err]

mode_list(file) == ListFrom(file, 0, ZeroBlock)

\* the copy loop writing the whole buffer, padding included
RECURSIVE CopyOut_padded(_, _, _, _)
CopyOut_padded(file, p, rec, remaining) ==
    IF remaining <= 0 THEN [data |-> << >>, pos |-> p, record |-> rec]
    ELSE LET r == fread(file, p, rec)
             rest == CopyOut_padded(file, r.pos, r.record,
                                    remaining - RECORD_SIZE)
         IN  [data   |-> r.record \o rest.data,
              pos    |-> rest.pos,
              record |-> rest.record]

\* the copy loop of mode_extract: to_read bytes of the buffer are written
\* after every fread, whatever that fread delivered
RECURSIVE CopyOut(_, _, _, _)
CopyOut(file, p, rec, remaining) ==
    IF remaining <= 0 THEN [data |-> << >>, pos |-> p, record |-> rec]
    ELSE LET to_read == IF remaining > RECORD_SIZE THEN RECORD_SIZE
                        ELSE remaining
             r == fread(file, p, rec)
             rest == CopyOut(file, r.pos, r.record, remaining - to_read)
         IN  [data   |-> SubSeq(r.record, 1, to_read) \o rest.data,
              pos    |-> rest.pos,
              record |-> rest.record]

\* an extract that does not move the input past the content of an entry
\* whose output file cannot be created
SkipEntry_noseek(p, filesize) == p

\* fseek( tar, ( ( filesize + 511 ) / 512 ) * 512, SEEK_CUR ) for an entry
\* whose output file cannot be created
SkipEntry(p, filesize) == p + ((filesize + 511) \div 512) * 512

\* mode_extract: the output files in the order they are written, the names
\* perror reported because fopen "wb" failed (the names in `locked`), and
\* whether the format error was reported
RECURSIVE ExtractFrom(_, _, _, _)
ExtractFrom(file, p, rec, locked) ==
    LET r == fread(file, p, rec)
    IN  IF r.n # RECORD_SIZE \/ is_block_empty(r.record)
        THEN [files |-> << >>, failed |-> << >>, err |-> FALSE]
        ELSE IF ~is_valid_tar_header(r.record)
        THEN [files |-> << >>, failed |-> << >>, err |-> TRUE]
        ELSE LET filename == DecodeName(r.record, 1)
                 filesize == SizeOf(r.record)
             IN  IF filename \in locked
                 THEN LET rest == ExtractFrom(file, SkipEntry(r.pos, filesize),
                                              r.record, locked)
                      IN  [files  |-> rest.files,
                           failed |-> << filename >> \o rest.failed,
                           err    |-> rest.err]
                 ELSE LET c == CopyOut(file, r.pos, r.record, filesize)
                          rest == ExtractFrom(file, c.pos, c.record, locked)
                      IN  [files  |-> << [name |-> filename,
                                          data |-> c.data] >> \o rest.files,
                           failed |-> rest.failed,
                           err    |-> rest.err]

mode_extract(file, locked) == ExtractFrom(file, 0, ZeroBlock, locked)

\* ------------------------------------------------------------------- state
VARIABLES
    tar,        \* the bytes of the archive file argv[ 2 ]
    pc,         \* "idle": no invocation running; "scan": inside
                \* find_append_position; "files": in the loop over the sources
    argv,       \* the sources of the running invocation (indices into Files)
    i,          \* index into argv of the next source
    pos,        \* file position of the archive stream
    record,     \* the global block buffer
    exitcode,   \* exit status of the last invocation (-1: none yet)
    stderr,     \* diagnostic of the last invocation
    listing,    \* lines printed by the last list
    out,        \* files written by the last extract
    obs,        \* "none", "list" or "extract": what was run on this archive
    old,        \* the archive when the last create / append started
    hist,       \* the operations on the archive so far
    now,        \* the global now
    failed      \* names the last extract could not create

mvars == << tar, pc, argv, i, pos, record, exitcode, stderr, listing, out,
            obs, old, hist, now, failed >>

\* the surroundings of the run
VARIABLES
    cpm,        \* TRUE: the build defines CPM
    clock,      \* what time( NULL ) returns
    disk,       \* room on the volume for the archive in bytes, -1: no limit
    nocreate,   \* the names fopen( filename, "wb" ) fails for
    maxappend   \* how many times the archive is appended to at most

evars == << cpm, clock, disk, nocreate, maxappend >>

\* the inputs and the result of one write_tar_header call, for the
\* specification of the header record alone
VARIABLES hin, header

hvars == << hin, header >>

\* the argument and the result of one octal_to_long call, for the
\* specification of the octal decoder alone; oin holds the arguments of the
\* long_to_octal call that has filled the field, if one has
VARIABLES octal, decoded, oin

ovars == << octal, decoded, oin >>

\* one write_file_content call, for the specification of the copy loop alone
VARIABLES
    cin,        \* the source: the bytes its reads deliver (data) and the
                \* size get_file_size has reported for it (size)
    cpos,       \* file position of the source stream
    remaining,  \* the local remaining
    cout        \* the bytes written to the archive stream so far

cvars == << cin, cpos, remaining, cout >>

vars == << mvars, evars, hvars, ovars, cvars >>

\* what the engine never writes
fixed == << evars, hvars, ovars, cvars >>

\* an archive file left behind by something else
Junk == SubSeq([k \in 1..(3 * RECORD_SIZE) |-> (k % 7) + 1],
               1, 3 * RECORD_SIZE)

MInit ==
    /\ tar \in { << >>, Junk }
    /\ pc = "idle"
    /\ argv = << >>
    /\ i = 1
    /\ pos = 0
    /\ record = ZeroBlock
    /\ exitcode = -1
    /\ stderr = ""
    /\ listing = << >>
    /\ out = << >>
    /\ obs = "none"
    /\ old = << >>
    /\ hist = << >>
    /\ now = 0
    /\ failed = << >>

\* a host build, a running clock, room on the volume, every output file can
\* be created
EInit ==
    /\ cpm = FALSE
    /\ clock = 1700000002
    /\ disk = -1
    /\ nocreate = { }
    /\ maxappend = 1

\* no write_tar_header call, no octal_to_long call
HIdle ==
    /\ hin = [name |-> << >>, size |-> 0, mtime |-> 0]
    /\ header = << >>

OIdle ==
    /\ octal = << >>
    /\ decoded = -1
    /\ oin = [val |-> 0, size |-> 0]

\* no write_file_content call
CIdle ==
    /\ cin = [data |-> << >>, size |-> 0]
    /\ cpos = 0
    /\ remaining = 0
    /\ cout = << >>

Init ==
    /\ MInit
    /\ EInit
    /\ HIdle
    /\ OIdle
    /\ CIdle

Ops(kind) == { k \in DOMAIN hist : hist[k].op = kind }

\* a new process: zeroed globals, nothing observed yet; main sets now
\* before it looks at the arguments
Begin(op, a) ==
    /\ now' = main_now(clock)
    /\ failed' = << >>
    /\ argv' = a
    /\ i' = 1
    /\ record' = ZeroBlock
    /\ exitcode' = -1
    /\ stderr' = ""
    /\ listing' = << >>
    /\ out' = << >>
    /\ obs' = "none"
    /\ old' = tar
    /\ hist' = Append(hist, [op |-> op, args |-> a])

\* a create that opens the destination without emptying it
MainCreate_keep(a) ==
    /\ pc = "idle"
    /\ hist = << >>
    /\ Begin("create", a)
    /\ tar' = tar
    /\ pos' = 0
    /\ pc' = "files"
    /\ UNCHANGED fixed

\* main, -cf: mode_create_append( 0 ) up to the loop; fopen "wb" truncates
MainCreate(a) ==
    /\ pc = "idle"
    /\ hist = << >>
    /\ Begin("create", a)
    /\ tar' = << >>
    /\ pos' = 0
    /\ pc' = "files"
    /\ UNCHANGED fixed

\* an append that opens the archive the way create does
MainAppend_trunc(a) ==
    /\ pc = "idle"
    /\ Cardinality(Ops("append")) < maxappend
    /\ Begin("append", a)
    /\ tar' = << >>
    /\ pos' = 0
    /\ pc' = "scan"
    /\ UNCHANGED fixed

\* main, -rf: mode_create_append( 1 ) up to the scan; fopen "r+b" keeps the
\* file; find_append_position starts with fseek( fp, 0, SEEK_SET )
MainAppend(a) ==
    /\ pc = "idle"
    /\ Cardinality(Ops("append")) < maxappend
    /\ Begin("append", a)
    /\ tar' = tar
    /\ pos' = 0
    /\ pc' = "scan"
    /\ UNCHANGED fixed

\* a scan after which the stream is positioned at the start of the archive
AppendScan_rewind ==
    /\ pc = "scan"
    /\ LET s == ScanPass(tar, pos, record)
       IN  /\ record' = s.record
           /\ IF s.ret = -2
              THEN /\ pos' = s.pos
                   /\ pc' = "scan"
                   /\ UNCHANGED << exitcode, stderr >>
              ELSE IF s.ret = -1
              THEN /\ pos' = s.pos
                   /\ pc' = "idle"
                   /\ exitcode' = 1
                   /\ stderr' = "Invalid or corrupt TAR archive"
              ELSE /\ pos' = 0
                   /\ pc' = "files"
                   /\ UNCHANGED << exitcode, stderr >>
    /\ UNCHANGED << tar, argv, i, listing, out, obs, old, hist, now, failed >>
    /\ UNCHANGED fixed

\* one pass of the scan loop; on its return: exit( 1 ) for a corrupt
\* archive, else fseek( tar, append_pos, SEEK_SET )
AppendScan ==
    /\ pc = "scan"
    /\ LET s == ScanPass(tar, pos, record)
       IN  /\ record' = s.record
           /\ IF s.ret = -2
              THEN /\ pos' = s.pos
                   /\ pc' = "scan"
                   /\ UNCHANGED << exitcode, stderr >>
              ELSE IF s.ret = -1
              THEN /\ pos' = s.pos
                   /\ pc' = "idle"
                   /\ exitcode' = 1
                   /\ stderr' = "Invalid or corrupt TAR archive"
              ELSE /\ pos' = s.ret
                   /\ pc' = "files"
                   /\ UNCHANGED << exitcode, stderr >>
    /\ UNCHANGED << tar, argv, i, listing, out, obs, old, hist, now, failed >>
    /\ UNCHANGED fixed

\* one pass of the loop over the sources: write_file( argv[ i ], tar )
WriteFile ==
    /\ pc = "files"
    /\ i <= Len(argv)
    /\ LET bytes == Written[cpm][now][argv[i]]
       IN  /\ tar' = Stored(fwrite(tar, pos, bytes), disk)
           /\ pos' = pos + Len(bytes)
           /\ record' = IF Len(bytes) > RECORD_SIZE
                        THEN SubSeq(bytes, Len(bytes) - RECORD_SIZE + 1,
                                    Len(bytes))
                        ELSE record
    /\ i' = i + 1
    /\ UNCHANGED << pc, argv, exitcode, stderr, listing, out, obs, old, hist,
                    now, failed >>
    /\ UNCHANGED fixed

\* after the loop: the two zero blocks, fclose, return 0
WriteTerminator ==
    /\ pc = "files"
    /\ i > Len(argv)
    /\ tar' = Stored(fwrite(tar, pos, Terminator), disk)
    /\ pos' = pos + 2 * RECORD_SIZE
    /\ record' = ZeroBlock
    /\ pc' = "idle"
    /\ exitcode' = 0
    /\ UNCHANGED << argv, i, stderr, listing, out, obs, old, hist, now,
                    failed >>
    /\ UNCHANGED fixed

\* main, -tf: mode_list
MainList ==
    /\ pc = "idle"
    /\ obs = "none"
    /\ LET r == mode_list(tar)
       IN  /\ listing' = r.lines
           /\ stderr' = IF r.err
                        THEN "Invalid TAR format: missing ustar magic."
                        ELSE ""
    /\ obs' = "list"
    /\ exitcode' = 0
    /\ out' = << >>
    /\ failed' = << >>
    /\ now' = main_now(clock)
    /\ UNCHANGED << tar, pc, argv, i, pos, record, old, hist >>
    /\ UNCHANGED fixed

\* argv[ 2 ], the path of the archive: "t"; no source has this name
ArchivePath == << 116 >>

\* main, -xf: mode_extract. fopen( filename, "wb" ) for an entry whose name
\* is the archive's own path truncates the archive and the bytes written
\* for that entry become its contents; the reads of the run still deliver
\* the old bytes, which the stream has in its buffer (an archive no longer
\* than the buffer)
MainExtract ==
    /\ pc = "idle"
    /\ obs = "none"
    /\ LET r == mode_extract(tar, nocreate)
           own == { k \in DOMAIN r.files : r.files[k].name = ArchivePath }
       IN  /\ out' = r.files
           /\ tar' = IF own = { } THEN tar
                     ELSE r.files[CHOOSE k \in own :
                                     \A m \in own : m <= k].data
           /\ failed' = r.failed
           /\ stderr' = IF r.err
                        THEN "Invalid TAR format: missing ustar magic."
                        ELSE ""
    /\ obs' = "extract"
    /\ exitcode' = 0
    /\ listing' = << >>
    /\ now' = main_now(clock)
    /\ UNCHANGED << pc, argv, i, pos, record, old, hist >>
    /\ UNCHANGED fixed

\* ------------------------------------------------------------- environment
\* the offsets of the headers of a well-formed archive, in order
RECURSIVE EntryOffsets(_, _)
EntryOffsets(file, p) ==
    LET r == fread(file, p, ZeroBlock)
    IN  IF r.n # RECORD_SIZE \/ ~is_valid_tar_header(r.record) THEN << >>
        ELSE << p >> \o EntryOffsets(file, r.pos + Padded(SizeOf(r.record)))

\* where a write can be cut off: every half block
CutPoints(file) ==
    { k * (RECORD_SIZE \div 2) :
        k \in 0..((Len(file) - 1) \div (RECORD_SIZE \div 2)) }

\* what the five magic bytes are changed to: NULs, "usta "
MagicMutations == << << 0, 0, 0, 0, 0 >>, << 117, 115, 116, 97, 32 >> >>

Fresh ==
    /\ pc = "idle"
    /\ obs = "none"
    /\ Len(hist) = 1
    /\ hist[1].op = "create"

\* the create that wrote the archive was interrupted: only the first `cut`
\* bytes reached the file
Interrupt(cut) ==
    /\ Fresh
    /\ tar' = SubSeq(tar, 1, cut)
    /\ hist' = Append(hist, [op |-> "interrupt", args |-> << cut >>])
    /\ UNCHANGED << pc, argv, i, pos, record, exitcode, stderr, listing, out,
                    obs, old, now, failed >>
    /\ UNCHANGED fixed

\* the magic field of the n-th header is changed
CorruptMagic(n, v) ==
    /\ Fresh
    /\ n \in DOMAIN EntryOffsets(tar, 0)
    /\ tar' = Overwrite(tar, EntryOffsets(tar, 0)[n] + 257, MagicMutations[v])
    /\ hist' = Append(hist, [op |-> "corrupt", args |-> << n, v >>])
    /\ UNCHANGED << pc, argv, i, pos, record, exitcode, stderr, listing, out,
                    obs, old, now, failed >>
    /\ UNCHANGED fixed

Next ==
    \/ \E a \in CreateArgs : MainCreate(a)
    \/ \E a \in AppendArgs : MainAppend(a)
    \/ AppendScan
    \/ WriteFile
    \/ WriteTerminator
    \/ MainList
    \/ MainExtract
    \/ \E cut \in CutPoints(tar) : Interrupt(cut)
    \/ \E n \in 1..MaxSrc, v \in DOMAIN MagicMutations : CorruptMagic(n, v)

Spec == Init /\ [][Next]_vars

\* ---------------------------------------------- the header record alone
HeaderNames ==
    { << 97 >>, memset(110, 100), memset(255, 100), memset(65, 101),
      << 97, 32, 98, 46, 116, 120, 116 >> }
HeaderSizes == { 0, 3, 511, 512, 600, 2147483647 }
HeaderTimes == { 0, 315532800, 1700000000, 2147483647 }

HInit ==
    /\ MInit
    /\ EInit
    /\ OIdle
    /\ CIdle
    /\ hin \in [name : HeaderNames, size : HeaderSizes, mtime : HeaderTimes]
    /\ header = << >>

\* write_tar_header( out, filename, filesize, mtime )
BuildHeader ==
    /\ header = << >>
    /\ header' = write_tar_header(hin.name, hin.size, hin.mtime)
    /\ UNCHANGED << hin, mvars, evars, ovars, cvars >>

HNext == BuildHeader

SpecHeader == HInit /\ [][HNext]_vars

\* ------------------------------------ archives written by something else
\* an archive of "a" padded with zero blocks to 20 records, the blocking
\* factor of UNIX tar
PaddedArchive ==
    LET t == mode_create(<< 1 >>, FALSE, T_19800101)
    IN  t \o memset(0, 20 * RECORD_SIZE - Len(t))

\* an archive of "a" and the 600-byte file with other bytes behind its
\* terminator
TrailArchive == mode_create(<< 1, 6 >>, FALSE, T_19800101) \o Junk

\* an archive of "a" with one more zero block behind its terminator
ThreeZeroArchive == mode_create(<< 1 >>, FALSE, T_19800101) \o ZeroBlock

\* archives with one all-zero block in front of their first header: of the
\* empty file "b", of the 3-byte file "a", and of "b" followed by "a"
GapArchives ==
    { ZeroBlock \o mode_create(a, FALSE, T_19800101) :
        a \in { << 2 >>, << 1 >>, << 2, 1 >> } }

\* an archive written under another name from a source "t" that held
\* "xyz", and then given the name "t"
SelfArchive ==
    write_tar_header(ArchivePath, 3, T_19800101)
    \o write_file_content(<< 120, 121, 122 >>, 0, 3)
    \o Terminator

ForeignArchives ==
    { PaddedArchive, TrailArchive, ThreeZeroArchive, SelfArchive }
    \cup GapArchives

ForeignInit ==
    /\ tar \in ForeignArchives
    /\ pc = "idle" /\ argv = << >> /\ i = 1 /\ pos = 0 /\ record = ZeroBlock
    /\ exitcode = -1 /\ stderr = "" /\ listing = << >> /\ out = << >>
    /\ obs = "none" /\ old = << >> /\ hist = << >> /\ now = 0
    /\ failed = << >>
    /\ EInit
    /\ HIdle
    /\ OIdle
    /\ CIdle

ForeignNext ==
    \/ \E a \in AppendArgs : MainAppend(a)
    \/ AppendScan
    \/ WriteFile
    \/ WriteTerminator
    \/ MainList
    \/ MainExtract

SpecForeign == ForeignInit /\ [][ForeignNext]_vars

\* ------------------------------------------------------- the surroundings
\* a volume with room for 512 or 3072 bytes; a CP/M build under every
\* reading of the clock; output names that cannot be created ("a", and the
\* name of 100 bytes)
Surroundings ==
    { [cpm |-> FALSE, clock |-> 1700000002, disk |-> d, nocreate |-> { }] :
        d \in { 512, 3072 } }
    \cup
    { [cpm |-> TRUE, clock |-> c, disk |-> -1, nocreate |-> { }] :
        c \in ClockReadings }
    \cup
    { [cpm |-> FALSE, clock |-> 1700000002, disk |-> -1, nocreate |-> n] :
        n \in { { << 97 >> }, { memset(110, 100) } } }

EnvInit ==
    /\ tar = << >>
    /\ pc = "idle" /\ argv = << >> /\ i = 1 /\ pos = 0 /\ record = ZeroBlock
    /\ exitcode = -1 /\ stderr = "" /\ listing = << >> /\ out = << >>
    /\ obs = "none" /\ old = << >> /\ hist = << >> /\ now = 0
    /\ failed = << >>
    /\ \E e \in Surroundings :
          /\ cpm = e.cpm
          /\ clock = e.clock
          /\ disk = e.disk
          /\ nocreate = e.nocreate
    /\ maxappend = 1
    /\ HIdle
    /\ OIdle
    /\ CIdle

\* a second passes while an invocation is running
Tick ==
    /\ pc # "idle"
    /\ clock \in ClockReadings
    /\ clock >= 0
    /\ clock' = clock + 1
    /\ UNCHANGED << mvars, cpm, disk, nocreate, maxappend, hvars, ovars,
                    cvars >>

EnvNext ==
    \/ \E a \in CreateArgs : MainCreate(a)
    \/ WriteFile
    \/ WriteTerminator
    \/ MainList
    \/ MainExtract
    \/ Tick

SpecEnv == EnvInit /\ [][EnvNext]_vars

\* ------------------------------------------- an archive appended to twice
SeqInit ==
    /\ tar = << >>
    /\ pc = "idle" /\ argv = << >> /\ i = 1 /\ pos = 0 /\ record = ZeroBlock
    /\ exitcode = -1 /\ stderr = "" /\ listing = << >> /\ out = << >>
    /\ obs = "none" /\ old = << >> /\ hist = << >> /\ now = 0
    /\ failed = << >>
    /\ cpm = FALSE /\ clock = 1700000002 /\ disk = -1 /\ nocreate = { }
    /\ maxappend = 2
    /\ HIdle
    /\ OIdle
    /\ CIdle

\* the create of the sequence names one source or none
SeqNext ==
    \/ \E a \in ArgLists(1) : MainCreate(a)
    \/ \E a \in AppendArgs : MainAppend(a)
    \/ AppendScan
    \/ WriteFile
    \/ WriteTerminator

SpecSeq == SeqInit /\ [][SeqNext]_vars

\* ---------------------------------------------- the octal decoder alone
\* '0', '1', '7', '8', ' ', NUL
OctalAlphabet == { 48, 49, 55, 56, 32, 0 }

OctalInit ==
    /\ MInit
    /\ EInit
    /\ HIdle
    /\ CIdle
    /\ octal \in [1..4 -> OctalAlphabet]
    /\ decoded = -1
    /\ oin = [val |-> 0, size |-> 0]

\* octal_to_long( str, len ) over the whole field
Decode ==
    /\ decoded = -1
    /\ octal # << >>
    /\ decoded' = octal_to_long(octal, Len(octal))
    /\ UNCHANGED << octal, oin, mvars, evars, hvars, cvars >>

OctalNext == Decode

SpecOctal == OctalInit /\ [][OctalNext]_vars

\* ------------------------------------------ the octal encoder and decoder
RECURSIVE Pow8(_)
Pow8(k) == IF k = 0 THEN 1 ELSE 8 * Pow8(k - 1)

\* values from 0 to the largest value of a long of 32 bits: the small ones,
\* the powers of 8 and their predecessors, the mode and the ids of
\* write_tar_header
CodecValues ==
    0..8 \cup { Pow8(k) - 1 : k \in 1..10 } \cup { Pow8(k) : k \in 1..10 }
         \cup { 420, 1000, 2147483647 }

\* the calls long_to_octal( out, size, val ) for the fields of 8 and of 12
\* bytes, with a value that has at most size - 1 octal digits
CodecInputs ==
    { c \in [ val : CodecValues, size : { 8, 12 } ] :
        Len(OctalDigits(c.val)) <= c.size - 1 }

CodecInit ==
    /\ MInit
    /\ EInit
    /\ HIdle
    /\ CIdle
    /\ octal = << >>
    /\ decoded = -1
    /\ oin \in CodecInputs

\* long_to_octal( out, size, val )
Encode ==
    /\ octal = << >>
    /\ oin.size > 0
    /\ octal' = long_to_octal(oin.size, oin.val)
    /\ UNCHANGED << decoded, oin, mvars, evars, hvars, cvars >>

CodecNext ==
    \/ Encode
    \/ Decode

SpecCodec == CodecInit /\ [][CodecNext]_vars

\* ------------------------------------------------- the copy loop alone
\* passes of the loop the model follows
MaxPasses == 6

\* the bytes a source can hold
SourceBytes == FileData4 \o FileData4

\* sources whose reads deliver all the bytes get_file_size has reported, and
\* sources that end earlier: a file that was cut after its size was taken,
\* a file of a file system that reports a size its reads do not deliver
ContentSources ==
    { c \in [ data : { SubSeq(SourceBytes, 1, n) :
                         n \in { 0, 3, 23, 512, 600, 1024 } },
              size : { 0, 3, 512, 600, 1024, 4096 } ] :
        c.size >= Len(c.data) }

\* write_file_content( out, in, filesize ) is entered: remaining = filesize
ContentInit ==
    /\ MInit
    /\ EInit
    /\ HIdle
    /\ OIdle
    /\ cin \in ContentSources
    /\ cpos = 0
    /\ remaining = cin.size
    /\ cout = << >>

\* one pass of the while loop of write_file_content
ContentPass ==
    /\ remaining > 0
    /\ Len(cout) < MaxPasses * RECORD_SIZE
    /\ LET r == fread(cin.data, cpos, ZeroBlock)
           block == SubSeq(r.record, 1, r.n) \o memset(0, RECORD_SIZE - r.n)
       IN  /\ cout' = cout \o block
           /\ remaining' = remaining - r.n
           /\ cpos' = r.pos
    /\ UNCHANGED << cin, mvars, evars, hvars, ovars >>

ContentNext == ContentPass

SpecContent == ContentInit /\ [][ContentNext]_vars

\* ======================================================== the properties
\* the sources of a command line that write_file accepts, in order
Accepted(a) ==
    SelectSeq([k \in DOMAIN a |-> Files[a[k]]], LAMBDA f : f.kind = "reg")

\* 512 + ceil(size/512)*512 for one entry
EntrySpan(f) ==
    512 + ((Len(f.data) + 511) \div 512) * 512

\* the sum of the spans of the first k entries
RECURSIVE SpanSum(_, _)
SpanSum(acc, k) ==
    IF k = 0 THEN 0 ELSE SpanSum(acc, k - 1) + EntrySpan(acc[k])

\* a create has run to its end and nothing else has touched the archive
CreateDone ==
    /\ pc = "idle"
    /\ Len(hist) = 1
    /\ hist[1].op = "create"

\* the archive model agrees with mode_create taken as a whole
CreateAgrees == CreateDone => tar = mode_create(hist[1].args, cpm, now)

\* C8 -- Padding invariant: the archive written by create has length
\* sum over the entries of (512 + ceil(size/512)*512) plus 1024; the content
\* of every entry is followed by zero bytes up to the next multiple of 512;
\* the last 1024 bytes are zero.
C8_PaddingInvariant ==
    CreateDone =>
        LET acc == Accepted(hist[1].args)
        IN  /\ Len(tar) = SpanSum(acc, Len(acc)) + 1024
            /\ \A k \in DOMAIN acc :
                 LET first == SpanSum(acc, k - 1) + 512 + Len(acc[k].data)
                     last  == SpanSum(acc, k)
                 IN  \A b \in (first + 1)..last : tar[b] = 0
            /\ \A b \in (Len(tar) - 1023)..Len(tar) : tar[b] = 0

\* a create of two entries, one of them with a partly filled last block
C8_Witness ==
    /\ CreateDone
    /\ Len(Accepted(hist[1].args)) = 2
    /\ \E k \in 1..2 : Len(Accepted(hist[1].args)[k].data) % 512 # 0
    /\ Len(tar) = 3584

\* a create from exactly "a" = "xyz" and "b" = "" has run to its end
CreatedAB ==
    /\ CreateDone
    /\ Len(hist[1].args) = 2
    /\ Files[hist[1].args[1]].name = << 97 >>
    /\ Files[hist[1].args[1]].data = << 120, 121, 122 >>
    /\ Files[hist[1].args[1]].kind = "reg"
    /\ Files[hist[1].args[2]].name = << 98 >>
    /\ Files[hist[1].args[2]].data = << >>
    /\ Files[hist[1].args[2]].kind = "reg"

\* C9 as stated -- creating an archive from "a" holding the 3 bytes "xyz"
\* and "b" holding 0 bytes yields an archive of 3072 bytes.
C9_ExampleLength3072 == CreatedAB => Len(tar) = 3072

\* C9 as amended -- creating an archive from "a" holding the 3 bytes "xyz"
\* and "b" holding 0 bytes yields an archive of 512+512+512+1024 = 2560
\* bytes: header and one content block for "a", header and no content
\* block for "b", two terminator blocks.
C9_ExampleLength ==
    CreatedAB =>
        /\ Len(tar) = 2560
        /\ mode_list(tar).lines = << [name |-> << 97 >>, size |-> 3],
                                     [name |-> << 98 >>, size |-> 0] >>

\* the create of "a" and "b" has finished
C9_Witness == CreatedAB /\ hist[1].args = << 1, 2 >> /\ Len(tar) > 0

\* the names the round trip is claimed for: at most 100 printable bytes
NamesOK(acc) ==
    \A k \in DOMAIN acc :
        /\ Len(acc[k].name) <= 100
        /\ \A c \in DOMAIN acc[k].name :
              acc[k].name[c] >= 32 /\ acc[k].name[c] <= 126

\* C1 -- Round trip: for every list of N distinct source files (names of
\* at most 100 printable bytes, contents arbitrary), create followed by
\* extract produces N output files whose names and contents are
\* byte-identical to the sources.
C1_RoundTrip ==
    ( CreateDone /\ obs = "extract" /\ NamesOK(Accepted(hist[1].args)) ) =>
        LET acc == Accepted(hist[1].args)
        IN  /\ Len(out) = Len(acc)
            /\ \A k \in DOMAIN acc :
                  /\ out[k].name = acc[k].name
                  /\ out[k].data = acc[k].data

\* an archive of two files, an all-zero block and a 100-byte name among
\* them, was created and extracted
C1_Witness ==
    /\ CreateDone
    /\ obs = "extract"
    /\ Len(out) = 2
    /\ \E k \in 1..2 : out[k].data = [b \in 1..512 |-> 0]
    /\ \E k \in 1..2 : Len(out[k].name) = 100 /\ Len(out[k].data) > 512

\* the (name, size) lines list prints for the entries written from acc
ListingOf(acc) ==
    [k \in DOMAIN acc |-> [name |-> acc[k].name, size |-> Len(acc[k].data)]]

\* the run named by the last element of hist has ended and nothing was run
\* after it
RunEnded == pc = "idle" /\ obs = "none"

\* the scan of the running append has just returned its insertion point
ScanReturned == pc = "files" /\ i = 1

\* an append onto an archive a create has written
AppendAfterCreate ==
    /\ Len(hist) = 2
    /\ hist[1].op = "create"
    /\ hist[2].op = "append"

\* C2 -- Append equivalence: for a valid archive with entries E and a list
\* extra of source files, the listing after append(archive, extra) equals,
\* in the same order, the listing of create(E ++ extra).
C2_AppendEquivalence ==
    ( AppendAfterCreate /\ RunEnded ) =>
        /\ exitcode = 0
        /\ mode_list(tar) = mode_list(mode_create(hist[1].args \o hist[2].args,
                                                  cpm, now))

\* two entries were created and a third was appended
C2_Witness ==
    /\ AppendAfterCreate
    /\ RunEnded
    /\ Len(Accepted(hist[1].args)) = 2
    /\ Len(Accepted(hist[2].args)) = 1
    /\ Len(mode_list(tar).lines) = 3

\* an append onto a created archive whose header n lost its magic
AppendAfterCorrupt ==
    /\ Len(hist) = 3
    /\ hist[1].op = "create"
    /\ hist[2].op = "corrupt"
    /\ hist[3].op = "append"

\* C3 -- Corruption detection: after the magic field of the n-th header of
\* a valid archive is changed so that bytes 257-261 are not "ustar", append
\* reports a corrupt archive, writes nothing, and leaves the length and
\* every byte of the destination unchanged.
C3_CorruptionDetected ==
    AppendAfterCorrupt =>
        /\ pc # "files"
        /\ tar = old
        /\ Len(tar) = Len(old)
        /\ RunEnded =>
              /\ exitcode = 1
              /\ stderr = "Invalid or corrupt TAR archive"

\* the append onto an archive whose second header was changed has ended
C3_Witness ==
    /\ AppendAfterCorrupt
    /\ RunEnded
    /\ hist[2].args[1] = 2
    /\ exitcode = 1
    /\ Len(tar) > 2048

\* C4 -- for a well-formed archive, whatever the contents of its entries
\* (all-zero content blocks, "ustar" at offset 257 of a content block), the
\* append scan returns the offset of the first terminator block, archive
\* length minus 1024.
C4_InsertionPoint ==
    ( AppendAfterCreate /\ ScanReturned ) =>
        /\ pos = Len(old) - 1024
        /\ SubSeq(old, pos + 1, pos + 1024) = [b \in 1..1024 |-> 0]

\* the scan has returned on the archive of the all-zero file and the file
\* with "ustar" at offset 257
C4_Witness ==
    /\ AppendAfterCreate
    /\ ScanReturned
    /\ Len(hist[1].args) = 2
    /\ \E k \in 1..2 : Files[hist[1].args[k]].data = [b \in 1..512 |-> 0]
    /\ \E k \in 1..2 :
          /\ Len(Files[hist[1].args[k]].data) > 262
          /\ SubSeq(Files[hist[1].args[k]].data, 258, 262) = USTAR
    /\ pos = 2560

\* an append onto a created archive that was cut to its first c bytes
AppendAfterInterrupt ==
    /\ Len(hist) = 3
    /\ hist[1].op = "create"
    /\ hist[2].op = "interrupt"
    /\ hist[3].op = "append"

\* j complete entries and nothing behind them are left of the archive
CompleteEntries(j) ==
    /\ j <= Len(Accepted(hist[1].args))
    /\ hist[2].args[1] = SpanSum(Accepted(hist[1].args), j)

\* C5 -- Truncated-archive recovery: for an archive of k >= 0 complete
\* entries and no zero block after them, the append scan returns the
\* archive's length as insertion point, and after append the listing is
\* the k old entries followed by the newly accepted files, ending with a
\* two-block terminator.
C5_TruncatedRecovery ==
    /\ \A j \in 0..MaxSrc :
         ( AppendAfterInterrupt /\ CompleteEntries(j) ) =>
            LET before == SubSeq(Accepted(hist[1].args), 1, j)
                added  == Accepted(hist[3].args)
            IN  /\ ScanReturned => pos = Len(old)
                /\ RunEnded =>
                     /\ exitcode = 0
                     /\ mode_list(tar).lines = ListingOf(before \o added)
                     /\ ~mode_list(tar).err
                     /\ Len(tar) = Len(old) + SpanSum(added, Len(added)) + 1024
                     /\ SubSeq(tar, Len(tar) - 1023, Len(tar))
                           = [b \in 1..1024 |-> 0]
    /\ ( Len(hist) = 1 /\ hist[1].op = "append" /\ old = << >> ) =>
            LET added == Accepted(hist[1].args)
            IN  /\ ScanReturned => pos = 0
                /\ RunEnded =>
                     /\ exitcode = 0
                     /\ mode_list(tar).lines = ListingOf(added)
                     /\ Len(tar) = SpanSum(added, Len(added)) + 1024

\* an append onto two complete entries without terminator has ended
C5_Witness ==
    /\ AppendAfterInterrupt
    /\ CompleteEntries(2)
    /\ RunEnded
    /\ Len(Accepted(hist[3].args)) = 1
    /\ Len(mode_list(tar).lines) = 3

\* C6 -- for every archive that is a proper prefix of a writer-produced
\* archive (the write was interrupted inside a header, inside the content
\* blocks, or after one of the two terminator blocks), a subsequent append
\* does not report corruption and its insertion point is the archive's
\* current length.
C6_InterruptedAppend ==
    AppendAfterInterrupt =>
        /\ RunEnded => exitcode = 0
        /\ ScanReturned => pos = Len(old)

\* C6, first half only: an append onto a proper prefix of a
\* writer-produced archive does not report corruption.
C6_NoCorruptionReported ==
    AppendAfterInterrupt => ( RunEnded => exitcode = 0 )

\* C6, second half only: when the scan accepts a proper prefix of a
\* writer-produced archive, the insertion point is the current length.
C6_InsertionAtLength ==
    AppendAfterInterrupt => ( ScanReturned => pos = Len(old) )

\* C7 -- Scan-then-commit: during append no write to the archive happens
\* before the scan has finished successfully; while the scan is running,
\* and after it has ended in corruption, the archive's bytes are those at
\* the start of the operation.
C7_ScanThenCommit ==
    ( /\ Len(hist) > 0
      /\ hist[Len(hist)].op = "append"
      /\ \/ pc = "scan"
         \/ RunEnded /\ exitcode = 1 )
    => tar = old

\* a scan that passed one entry and then ended in corruption
C7_Witness ==
    /\ AppendAfterCorrupt
    /\ hist[2].args[1] = 2
    /\ RunEnded
    /\ exitcode = 1
    /\ pos >= 1024
    /\ tar = old

\* C10 -- Checksum invariant: for every header the writer produces, the
\* value decoded from the checksum field [148:156) is the unsigned sum of
\* all 512 header bytes with those eight bytes taken as spaces, and the sum
\* fits the six octal digits written.
C10_ChecksumInvariant ==
    header # << >> =>
        LET field == SubSeq(header, 149, 156)
            blank == SubSeq(header, 1, 148) \o [b \in 1..8 |-> 32]
                     \o SubSeq(header, 157, 512)
            sum   == SumBytes(blank, 1, 512)
        IN  /\ Len(header) = 512
            /\ octal_to_long(field, 8) = sum
            /\ sum < 262144
            /\ \A b \in 1..6 : field[b] >= 48 /\ field[b] <= 55
            /\ field[7] = 0
            /\ field[8] = 32

\* a header for a 100-byte name of bytes 255 and the largest size and time
C10_Witness ==
    /\ header # << >>
    /\ Len(hin.name) = 100
    /\ hin.name[1] = 255
    /\ hin.size = 2147483647
    /\ hin.mtime = 2147483647
    /\ octal_to_long(SubSeq(header, 149, 156), 8) > 25500

\* the last operation is an append that has run to its end with status 0
AppendSucceeded ==
    /\ Len(hist) > 0
    /\ hist[Len(hist)].op = "append"
    /\ RunEnded
    /\ exitcode = 0

\* C11 -- after a successful append to an archive the scan accepts, the
\* archive ends at the end of the rewritten terminator: its length is the
\* insertion point plus the sum over the new entries of
\* (512 + ceil(size/512)*512) plus 1024, and no byte of the old file remains
\* behind the new terminator, also when the old file reached further.
C11_TruncateAndExtend ==
    AppendSucceeded =>
        LET added == Accepted(hist[Len(hist)].args)
        IN  Len(tar) = find_append_position(old)
                       + SpanSum(added, Len(added)) + 1024
\* the bytes of one entry: the header, the content, zeros up to the next
\* multiple of 512
EntryBytes(f) ==
    write_tar_header(f.name, Len(f.data), FileTime(f, cpm, now))
    \o f.data
    \o [b \in 1..((512 - (Len(f.data) % 512)) % 512) |-> 0]

\* the entries of acc from the k-th on, one behind the other
RECURSIVE EntriesFrom(_, _)
EntriesFrom(acc, k) ==
    IF k > Len(acc) THEN << >>
    ELSE EntryBytes(acc[k]) \o EntriesFrom(acc, k + 1)

\* C12 -- the archive written by create is a function of the accepted
\* sources only: in command-line order one entry for each source that can
\* be opened and is a regular file, followed by the terminator; a source
\* that cannot be opened or is not a regular file contributes no byte and
\* does not stop the processing of later sources; nothing of the
\* destination's previous contents remains.
C12_CreateFromAccepted ==
    CreateDone =>
        /\ tar = EntriesFrom(Accepted(hist[1].args), 1)
                 \o [b \in 1..1024 |-> 0]
        /\ exitcode = 0

\* a create over a destination that held other bytes, from a source that
\* cannot be opened followed by a regular file
C12_Witness ==
    /\ CreateDone
    /\ old = Junk
    /\ Len(hist[1].args) = 2
    /\ Files[hist[1].args[1]].kind = "none"
    /\ Files[hist[1].args[2]].kind = "reg"
    /\ Len(tar) = 2048
\* the files extract writes for the entries written from acc
ExtractOf(acc) ==
    [k \in DOMAIN acc |-> [name |-> acc[k].name, data |-> acc[k].data]]

\* a created archive whose header n lost its magic, nothing else done to it
CreatedThenCorrupted ==
    /\ Len(hist) = 2
    /\ hist[1].op = "create"
    /\ hist[2].op = "corrupt"

\* C13 -- in list and extract, when the block read at a header position is
\* not empty and does not hold "ustar" at offset 257, the operation reports
\* a format error and stops: every entry before that block has been
\* reported / extracted, and no entry behind it is reported or extracted,
\* even when valid headers follow.
C13_HardStop ==
    CreatedThenCorrupted =>
        LET acc == Accepted(hist[1].args)
            before == SubSeq(acc, 1, hist[2].args[1] - 1)
        IN  /\ obs = "list" =>
                 /\ listing = ListingOf(before)
                 /\ stderr = "Invalid TAR format: missing ustar magic."
            /\ obs = "extract" =>
                 /\ out = ExtractOf(before)
                 /\ stderr = "Invalid TAR format: missing ustar magic."

\* the first of two headers lost its magic and the archive was listed
C13_Witness ==
    /\ CreatedThenCorrupted
    /\ Len(Accepted(hist[1].args)) = 2
    /\ hist[2].args[1] = 1
    /\ obs = "list"
    /\ listing = << >>
    /\ Len(EntryOffsets(tar, EntrySpan(Accepted(hist[1].args)[1]))) = 1
\* a created archive, whole or cut to its first bytes, nothing else done to it
CreatedMaybeCut ==
    /\ pc = "idle"
    /\ hist # << >>
    /\ hist[1].op = "create"
    /\ \/ Len(hist) = 1
       \/ Len(hist) = 2 /\ hist[2].op = "interrupt"

\* how many of the entries written from acc have their whole header inside
\* the first cut bytes
RECURSIVE HeadersBelow(_, _, _)
HeadersBelow(acc, k, cut) ==
    IF k > Len(acc) \/ SpanSum(acc, k - 1) + 512 > cut THEN 0
    ELSE 1 + HeadersBelow(acc, k + 1, cut)

\* C14 -- in list and extract, a short read (fewer than 512 bytes) or an
\* all-zero block at a header position ends the operation as a normal end
\* of archive: no error is reported, no entry is reported for that block,
\* and the terminator is never taken for an entry.
C14_NormalEnd ==
    ( CreatedMaybeCut /\ obs # "none" ) =>
        LET acc == Accepted(hist[1].args)
            n == HeadersBelow(acc, 1, Len(tar))
        IN  /\ stderr = ""
            /\ exitcode = 0
            /\ obs = "list" => listing = ListingOf(SubSeq(acc, 1, n))
            /\ obs = "extract" =>
                 /\ Len(out) = n
                 /\ \A k \in 1..n : out[k].name = acc[k].name

\* an archive cut inside its second header was listed: the read at the
\* second header position is short
C14_Witness ==
    /\ CreatedMaybeCut
    /\ Len(hist) = 2
    /\ Len(Accepted(hist[1].args)) = 2
    /\ Len(tar) = EntrySpan(Accepted(hist[1].args)[1]) + 256
    /\ obs = "list"
    /\ Len(listing) = 1
\* the entries of acc whose name fopen "wb" accepts / refuses
Creatable(acc) == SelectSeq(acc, LAMBDA f : f.name \notin nocreate)
Refused(acc) == SelectSeq(acc, LAMBDA f : f.name \in nocreate)

\* a create wrote the whole archive (the volume had room) and extract ran
ExtractedWhole ==
    /\ CreateDone
    /\ disk < 0
    /\ obs = "extract"

\* C15 -- in extract, when the output file of an entry cannot be created,
\* that entry is skipped and the input position advances by
\* ceil(size/512)*512 bytes, so that every later entry is still extracted
\* with its name and exactly its size content bytes.
C15_SkipUncreatable ==
    ExtractedWhole =>
        LET acc == Accepted(hist[1].args)
        IN  /\ out = ExtractOf(Creatable(acc))
            /\ failed = [k \in DOMAIN Refused(acc) |-> Refused(acc)[k].name]
            /\ stderr = ""

\* "a" (3 bytes, one content block) could not be created and the 600-byte
\* file behind it was extracted
C15_Witness ==
    /\ ExtractedWhole
    /\ nocreate = { << 97 >> }
    /\ failed = << << 97 >> >>
    /\ Len(Accepted(hist[1].args)) = 2
    /\ Len(out) = 1
    /\ out[1].data = FileData4
\* an invocation has ended
Exited == pc = "idle" /\ exitcode # -1

\* the invocation reported a block without magic at a header position
CorruptionReported ==
    stderr \in { "Invalid or corrupt TAR archive",
                 "Invalid TAR format: missing ustar magic." }

\* C16 -- the exit status of an invocation is 0 when the operation succeeds
\* and 1 when corruption (a non-empty header block with invalid magic) is
\* detected, in every mode: list, extract and append.
C16_ExitStatus ==
    Exited => exitcode = ( IF CorruptionReported THEN 1 ELSE 0 )

\* C16 for append alone: status 1 exactly when the scan found corruption
C16_AppendExitStatus ==
    ( Exited /\ obs = "none" ) =>
        exitcode = ( IF CorruptionReported THEN 1 ELSE 0 )
\* a write of the running or the last create / append transferred fewer
\* bytes than requested: the stream position is behind the room on the volume
ShortWrite ==
    /\ hist # << >>
    /\ hist[Len(hist)].op \in { "create", "append" }
    /\ obs = "none"
    /\ disk >= 0
    /\ pos > disk

\* C17 -- when a write to the archive during create or append transfers
\* fewer bytes than requested, the operation ends as a fatal I/O failure:
\* it does not finish with a success status.
C17_ShortWriteFatal ==
    ShortWrite => ~( pc = "idle" /\ exitcode = 0 )

\* C17, second part: after a short write no later block is written.
C17_ShortWriteStops ==
    [][ ShortWrite => ( pos' = pos \/ pc' = "idle" ) ]_vars
\* 1978-01-01 00:00:00 UTC: 2922 days after 1970-01-01
Floor1978 == 2922 * 86400

\* the time stat supplies to write_file in this build
PlatformTime(f) == IF cpm THEN f.atime ELSE f.mtime

\* the mtime field [136:148) of the k-th header of an archive written from acc
StoredTime(acc, k) ==
    octal_to_long(SubSeq(tar, SpanSum(acc, k - 1) + 137,
                         SpanSum(acc, k - 1) + 148), 12)

\* a create wrote the whole archive
CreatedWhole ==
    /\ CreateDone
    /\ obs = "none"
    /\ disk < 0

\* C18 as stated -- the time stored in a written header is the platform's
\* time of the source, unless that is at or before the 1978-01-01 floor, in
\* which case it is the "now" captured at process start; no written header
\* carries a time at or before the floor.
C18_MtimeFloor1978 ==
    CreatedWhole =>
        LET acc == Accepted(hist[1].args)
        IN  \A k \in DOMAIN acc :
               /\ StoredTime(acc, k) =
                     IF PlatformTime(acc[k]) <= Floor1978 THEN now
                     ELSE PlatformTime(acc[k])
               /\ StoredTime(acc, k) > Floor1978

\* C18 as amended -- in the CP/M build the time stored in a written header
\* is the platform's time of the source (st_atime), unless that is at or
\* before the 1980-01-01 floor (315532800), in which case it is the "now"
\* captured once at process start, the same for every file of the run,
\* itself set to the floor when the clock reads at or before it; no header
\* the CP/M build writes carries a time before the floor.  Any other build
\* stores the platform's st_mtime as it is.
C18_MtimeFloor ==
    CreatedWhole =>
        LET acc == Accepted(hist[1].args)
        IN  /\ now >= T_19800101
            /\ now \in { T_19800101 } \cup ClockReadings
            /\ \A k \in DOMAIN acc :
                  IF cpm
                  THEN /\ StoredTime(acc, k) =
                            IF acc[k].atime <= T_19800101 THEN now
                            ELSE acc[k].atime
                       /\ StoredTime(acc, k) >= T_19800101
                  ELSE StoredTime(acc, k) = acc[k].mtime

\* a CP/M build without a clock archived "a" (last access 1979) and the
\* 600-byte file (last access exactly 1980-01-01): both carry the floor
C18_Witness ==
    /\ CreatedWhole
    /\ cpm
    /\ clock = -1
    /\ hist[1].args = << 1, 6 >>
    /\ StoredTime(Accepted(hist[1].args), 1) = T_19800101
    /\ StoredTime(Accepted(hist[1].args), 2) = T_19800101
\* the value of a string of octal digits, digit by place
DigitsValue(d) ==
    LET RECURSIVE Sum(_)
        Sum(k) == IF k = 0 THEN 0
                  ELSE (d[k] - 48) * 8 ^ (Len(d) - k) + Sum(k - 1)
    IN  Sum(Len(d))

\* the digits in front of the first byte that is not in '0'..'7'
LeadingDigits(s) ==
    LET stops == { k \in DOMAIN s : ~IsOctalDigit(s[k]) }
    IN  IF stops = { } THEN s
        ELSE SubSeq(s, 1, (CHOOSE k \in stops : \A j \in stops : k <= j) - 1)

\* C19 as stated -- octal decode of a field of length len accumulates
\* value*8 + digit from left to right and stops at the first byte that is
\* not in '0'..'7' (or at len): bytes behind the first such byte never
\* contribute to the result.
C19_StopsAtFirstNonOctal ==
    decoded # -1 => decoded = DigitsValue(LeadingDigits(octal))

\* C19 as amended -- octal decode of a field of length len visits all len
\* bytes and accumulates value*8 + digit from left to right over the bytes
\* in '0'..'7'; a byte that is not in '0'..'7' is passed over and does not
\* end the decoding, so the result is the value of all the digits of the
\* field: digits, a space or NUL, then further digits decode to the value
\* of the leading digits followed by the further digits.
C19_SkipsNonOctal ==
    decoded # -1 =>
        decoded = DigitsValue(SelectSeq(octal, LAMBDA c : IsOctalDigit(c)))

\* "1", space, "7", NUL decodes to 017
C19_Witness ==
    /\ octal = << 49, 32, 55, 0 >>
    /\ decoded = 15
\* s is the front of t
IsPrefix(s, t) == Len(s) <= Len(t) /\ s = SubSeq(t, 1, Len(s))

EntryComplete(file, k) ==
    LET at == EntryOffsets(file, 0)[k]
    IN  at + RECORD_SIZE + Padded(SizeOf(SubSeq(file, at + 1, at + RECORD_SIZE)))
           <= Len(file)

AppendOntoGap ==
    /\ Len(hist) = 1
    /\ hist[1].op = "append"
    /\ old \in GapArchives

\* C21 -- false alarm handling in the append scan: when an all-zero block at
\* a header position is followed by a valid header of an entry of any size,
\* the scan resumes with that entry, skips exactly its padded content and
\* returns the offset of the terminator behind the following entries; it
\* does not report corruption for such an archive.
C21_FalseAlarmResumes ==
    ( AppendOntoGap /\ pc # "scan" ) =>
        /\ stderr # "Invalid or corrupt TAR archive"
        /\ ScanReturned => pos = Len(old) - 2 * RECORD_SIZE

\* C21 for an entry without content: the header is read a second time and
\* the scan goes on to the terminator
C21_FalseAlarmEmptyEntry ==
    ( AppendOntoGap /\ pc # "scan"
        /\ SizeOf(Bytes(old, RECORD_SIZE, RECORD_SIZE)) = 0 ) =>
        /\ stderr # "Invalid or corrupt TAR archive"
        /\ ScanReturned => pos = Len(old) - 2 * RECORD_SIZE

\* the running invocation is an append
Appending == Len(hist) > 0 /\ hist[Len(hist)].op = "append"

\* two all-zero blocks lie in the file at offset p
TwoZeroBlocksAt(file, p) ==
    /\ p + 2 * RECORD_SIZE <= Len(file)
    /\ is_block_empty(Bytes(file, p, RECORD_SIZE))
    /\ is_block_empty(Bytes(file, p + RECORD_SIZE, RECORD_SIZE))

\* C22 -- on every finite archive the append scan terminates in exactly one
\* of the terminal states CONFIRMED (the insertion point is the offset of the
\* first of two consecutive zero blocks), EOF_REACHED (the insertion point is
\* the end of the file) or CORRUPT, and every pass of its loop moves the read
\* position forward by at least 512 bytes.
C22_TerminalStates ==
    ( Appending /\ ScanReturned ) =>
        \/ TwoZeroBlocksAt(old, pos)
        \/ pos = Len(old)

\* C22, the progress of the loop: a pass that is followed by another pass
\* has moved the read position forward by at least one block
C22_PassAdvances ==
    [][ ( pc = "scan" /\ pc' = "scan" ) => pos' >= pos + RECORD_SIZE ]_vars

\* the copy loop has been left
ContentDone == remaining <= 0

\* C23 -- for every accepted source whose header announces size bytes,
\* content emission terminates after writing exactly ceil(size/512) blocks
\* of 512 bytes in which every byte beyond the source's data is zero,
\* whatever number of bytes each read of the source delivers, a read that
\* delivers 0 bytes before size bytes have been read included.
C23_ContentTerminates ==
    /\ Len(cout) <= Padded(cin.size)
    /\ ContentDone =>
          /\ Len(cout) = Padded(cin.size)
          /\ cout = cin.data \o memset(0, Padded(cin.size) - Len(cin.data))

\* C23 for the sources whose reads deliver the size reported
C23_ContentOfWholeSource ==
    ( Len(cin.data) = cin.size ) =>
        /\ Len(cout) <= Padded(cin.size)
        /\ ContentDone =>
              cout = cin.data \o memset(0, Padded(cin.size) - Len(cin.data))

\* C24 -- octal codec round trip: encode(value, width) produces exactly
\* width-1 ASCII octal digits, zero-padded on the left, with a terminator
\* byte in the last slot, and decode(encode(value, width), width) = value
\* for every value with 0 <= value < 8^(width-1), in particular for the
\* 12-byte size and mtime fields.
C24_CodecRoundTrip ==
    ( oin.size > 0 /\ octal # << >> ) =>
        /\ Len(octal) = oin.size
        /\ \A k \in 1..(oin.size - 1) : IsOctalDigit(octal[k])
        /\ octal[oin.size] = 0
        /\ DigitsValue(SubSeq(octal, 1, oin.size - 1)) = oin.val
        /\ decoded # -1 => decoded = oin.val

\* the largest value of eleven digits TLC holds has gone through a field of
\* 12 bytes and come back
C24_Witness ==
    /\ oin = [val |-> 2147483647, size |-> 12]
    /\ octal = << 49 >> \o memset(55, 10) \o << 0 >>
    /\ decoded = 2147483647

\* a name with '?' in the place of every byte that is not printable
Printable(name) ==
    SubSeq([j \in 1..Len(name) |->
               IF isprint(name[j]) THEN name[j] ELSE 63], 1, Len(name))

\* C25 -- the name reported by list and used by extract is the header's name
\* bytes up to the first zero byte or 100 bytes, whichever comes first, with
\* every non-printable byte replaced by '?'; the writer stores at most the
\* first 100 bytes of a source name without touching the mode field, so a
\* name of exactly 100 bytes is decoded to those same 100 bytes.
C25_NameDecoding ==
    header # << >> =>
        LET kept == SubSeq(hin.name, 1, Min(Len(hin.name), NAME_SIZE - 1))
        IN  /\ SubSeq(header, 1, Len(kept)) = kept
            /\ \A j \in (Len(kept) + 1)..(NAME_SIZE - 1) : header[j] = 0
            /\ SubSeq(header, 101, 108) = << 48, 48, 48, 48, 54, 52, 52, 0 >>
            /\ DecodeName(header, 1) = Printable(kept)

\* the header of a printable name of exactly 100 bytes has been built: the
\* name field holds no NUL and the name decoded has 100 bytes
C25_Witness ==
    /\ header # << >>
    /\ hin.name = memset(110, 100)
    /\ \A j \in 1..100 : header[j] # 0
    /\ Len(DecodeName(header, 1)) = 100

\* the sources accepted by the first k invocations, in order
RECURSIVE AcceptedUpTo(_)
AcceptedUpTo(k) ==
    IF k = 0 THEN << >>
    ELSE AcceptedUpTo(k - 1) \o Accepted(hist[k].args)

\* a create and the appends behind it have all run to their end
SequenceDone ==
    /\ RunEnded
    /\ Len(hist) > 0
    /\ hist[1].op = "create"
    /\ \A k \in 2..Len(hist) : hist[k].op = "append"

\* C26 -- well-formedness is an invariant of every sequence of operations:
\* after a create followed by any finite sequence of appends, each with any
\* mix of accepted and skipped sources, the archive is a sequence of entries
\* followed by exactly two all-zero blocks, its length is a multiple of 512
\* and equals the sum over its entries of (512 + ceil(size/512)*512) plus
\* 1024.
C26_WellFormedSequence ==
    SequenceDone =>
        LET acc == AcceptedUpTo(Len(hist))
        IN  /\ exitcode = 0
            /\ Len(tar) % RECORD_SIZE = 0
            /\ Len(tar) = SpanSum(acc, Len(acc)) + 2 * RECORD_SIZE
            /\ TwoZeroBlocksAt(tar, Len(tar) - 2 * RECORD_SIZE)
            /\ mode_list(tar) = [lines |-> ListingOf(acc), err |-> FALSE]

\* two appends have run behind a create, the first with no source accepted,
\* and the archive holds an entry of each of the other two invocations
C26_Witness ==
    /\ SequenceDone
    /\ Len(hist) = 3
    /\ Accepted(hist[1].args) # << >>
    /\ hist[2].args # << >>
    /\ Accepted(hist[2].args) = << >>
    /\ Accepted(hist[3].args) # << >>

\* the offset of the block at which list stops reading headers: the first
\* block that is short, all-zero or without magic
RECURSIVE ListStop(_, _)
ListStop(file, p) ==
    LET r == fread(file, p, ZeroBlock)
    IN  IF r.n # RECORD_SIZE \/ is_block_empty(r.record)
           \/ ~is_valid_tar_header(r.record)
        THEN p
        ELSE ListStop(file, r.pos + Padded(SizeOf(r.record)))

\* C27 -- the reader and the append scan agree on where an archive ends: for
\* every archive on which the append scan succeeds, the insertion point is
\* the offset at which list stops reading headers, so after a successful
\* append of at least one accepted file the listing of the archive is the
\* listing from before the append followed by the new entries.
C27_ReaderAndScanAgree ==
    /\ ( Appending /\ ScanReturned ) => pos = ListStop(old, 0)
    /\ AppendSucceeded =>
          mode_list(tar).lines
            = mode_list(old).lines
              \o ListingOf(Accepted(hist[Len(hist)].args))

\* C27 for the archives a create has written and nothing has touched
C27_AgreeOnCreated ==
    AppendAfterCreate =>
        /\ ScanReturned => pos = ListStop(old, 0)
        /\ RunEnded =>
              mode_list(tar).lines
                = mode_list(old).lines \o ListingOf(Accepted(hist[2].args))

\* C28 -- whenever the append scan succeeds, the insertion point is a
\* multiple of 512 and is not greater than the archive's length, so every
\* header append writes starts on a block boundary at or before the old end
\* of file and the archive's length after the append is a multiple of 512,
\* also for an archive whose length is not a multiple of 512 or whose last
\* entry's content is cut short.
C28_InsertionPointInFile ==
    /\ ( Appending /\ ScanReturned ) =>
          /\ pos % RECORD_SIZE = 0
          /\ pos <= Len(old)
    /\ AppendSucceeded => Len(tar) % RECORD_SIZE = 0

\* C28 for the archives whose last entry is cut inside its content at a
\* block boundary: the insertion point is a multiple of 512
C28_InsertionPointAligned ==
    ( Appending /\ ScanReturned /\ Len(old) % RECORD_SIZE = 0 ) =>
        pos % RECORD_SIZE = 0

\* the step is an extract
ExtractStep == obs = "none" /\ obs' = "extract"

\* C29 -- extract never modifies the archive it reads: the archive file's
\* bytes are the same before and after extract for every archive, an archive
\* that holds an entry whose name equals the archive's own path included.
C29_ExtractKeepsArchive ==
    [][ ExtractStep => tar' = tar ]_vars

\* C29 for the archives without an entry of the archive's own name
C29_ExtractKeepsOthers ==
    [][ ( ExtractStep /\ \A k \in DOMAIN out' : out'[k].name # ArchivePath )
          => tar' = tar ]_vars

\* the bytes the archive holds for the content of an entry announced at
\* header offset p with filesize bytes: nothing beyond the end of the file
ContentInFile(file, p, filesize) ==
    SubSeq(file, Min(Len(file), p + RECORD_SIZE) + 1,
                 Min(Len(file), p + RECORD_SIZE + filesize))

\* the contents extract may write for the entries of file from offset p on
RECURSIVE ContentsFrom(_, _)
ContentsFrom(file, p) ==
    LET r == fread(file, p, ZeroBlock)
    IN  IF r.n # RECORD_SIZE \/ is_block_empty(r.record)
           \/ ~is_valid_tar_header(r.record)
        THEN << >>
        ELSE << ContentInFile(file, p, SizeOf(r.record)) >>
             \o ContentsFrom(file, r.pos + Padded(SizeOf(r.record)))

\* C30 -- every byte extract writes to an output file is the archive's byte
\* at the corresponding content offset of that entry (header offset + 512 +
\* i for the i-th byte, i < size), also when the archive ends before the
\* entry's content is complete: extract then writes no bytes that are
\* absent from the archive, such as the previous contents of the block
\* buffer.
C30_ExtractWritesArchiveBytes ==
    ( obs = "extract" /\ failed = << >> ) =>
        LET want == ContentsFrom(tar, 0)
        IN  /\ Len(out) = Len(want)
            /\ \A k \in DOMAIN out : IsPrefix(out[k].data, want[k])

\* C30 for the entries whose content is completely in the archive
C30_ExtractOfCompleteEntries ==
    ( obs = "extract" /\ failed = << >> ) =>
        LET want == ContentsFrom(tar, 0)
            at   == EntryOffsets(tar, 0)
        IN  \A k \in DOMAIN out :
                ( at[k] + RECORD_SIZE + Len(out[k].data) <= Len(tar) ) =>
                    out[k].data = want[k]

====
